---------------------------- MODULE Spec2Model ----------------------------
(***************************************************************************)
(* Krishi Mitra: the frontend's risk score, chat widgets, authentication   *)
(* pages and disease-detection upload, and the documented RAG query graph. *)
(*                                                                         *)
(* Strings that the code inspects character by character (crop names,     *)
(* chat input, passwords) are sequences of one-character strings.         *)
(* Numbers of the risk score are fixed-point: U units make 1.0, weather    *)
(* readings are given in tenths.                                           *)
(***************************************************************************)
EXTENDS Integers, Sequences, FiniteSets, TLC

VARIABLES
    \* RiskDashboard.tsx, calculateCropRisk(cropName, weather)
    cropName, weather, riskPc, riskOut,
    \* documented LangGraph pipeline: the node to run next, RAGState, nodes run so far
    ragPc, ragState, ragTrace,
    \* Chatbot.tsx / ChatbotPopup.tsx: which component, its state, its request in flight
    component, messages, input, loading, chatReq, chatLast,
    \* localStorage["access_token"], the router's current page, the toast on screen
    token, page, toast,
    \* Auth page: mount effect progress, loading, request in flight, last handler run
    authPc, authLoading, authReq, authLast, userBudget,
    \* Dashboard page: which variant is built, how GET /auth/user/me behaves, checkAuth
    dashVariant, backend, checkPc, checking, userName, dashLast,
    \* LocalizedAdvisory.tsx DiseaseDetection component; result is <<>> for null, else
    \* <<the prediction>>
    selectedFile, imagePreview, reading, isAnalyzing, result, disReq, disLast,
    \* RiskDashboard.tsx component: the location prop, whether the fetchWeather effect
    \* has run for it, the state weather / alerts / error (<<>> for null, else <<value>>)
    \* and loading, and every fetchWeather call started so far with its answer
    location, wxMounted, currentWeather, alerts, error, weatherLoading, fetches, wxLast,
    \* CropRecommendation.tsx / FertilizerRecommendation: which form, its text inputs,
    \* its selects and slider, isGenerating, the displayed recommendation(s) and soil
    \* nutrients (<<>> when none), the prediction request in flight, last handler run
    recForm, fields, selects, isGenerating, recommendations, soilNutrients, recReq, recLast

riskVars == <<cropName, weather, riskPc, riskOut>>
ragVars  == <<ragPc, ragState, ragTrace>>
chatVars == <<component, messages, input, loading, chatReq, chatLast>>
envVars  == <<token, page, toast>>
authVars == <<authPc, authLoading, authReq, authLast, userBudget,
              dashVariant, backend, checkPc, checking, userName, dashLast>>
disVars  == <<selectedFile, imagePreview, reading, isAnalyzing, result, disReq, disLast>>
wxVars   == <<location, wxMounted, currentWeather, alerts, error, weatherLoading,
              fetches, wxLast>>
recVars  == <<recForm, fields, selects, isGenerating, recommendations, soilNutrients,
              recReq, recLast>>
vars     == <<riskVars, ragVars, chatVars, envVars, authVars, disVars, wxVars, recVars>>

\* what each part of the application leaves alone
outsideRisk == <<ragVars, chatVars, envVars, authVars, disVars, wxVars, recVars>>
outsideRag  == <<riskVars, chatVars, envVars, authVars, disVars, wxVars, recVars>>
outsideChat == <<token, page, riskVars, ragVars, authVars, disVars, wxVars, recVars>>
outsideAuth == <<riskVars, ragVars, chatVars, disVars, wxVars, recVars>>
outsideDis  == <<page, riskVars, ragVars, chatVars, authVars, wxVars, recVars>>
outsideWx   == <<envVars, riskVars, ragVars, chatVars, authVars, disVars, recVars>>
outsideRec  == <<page, riskVars, ragVars, chatVars, authVars, disVars, wxVars>>

(***************************************************************************)
(* Character strings                                                       *)
(***************************************************************************)
Whitespace == {" "}

Upper == <<"A","B","C","D","E","F","G","H","I","J","K","L","M",
           "N","O","P","Q","R","S","T","U","V","W","X","Y","Z">>
Lower == <<"a","b","c","d","e","f","g","h","i","j","k","l","m",
           "n","o","p","q","r","s","t","u","v","w","x","y","z">>

\* String.prototype.toLowerCase on one character
LowerChar(c) ==
    IF \E i \in 1..26 : Upper[i] = c
    THEN Lower[CHOOSE i \in 1..26 : Upper[i] = c]
    ELSE c

toLowerCase(s) == [i \in 1..Len(s) |-> LowerChar(s[i])]

\* String.prototype.trim: drop leading and trailing whitespace
RECURSIVE TrimLeft(_)
TrimLeft(s) ==
    IF s # <<>> /\ Head(s) \in Whitespace THEN TrimLeft(Tail(s)) ELSE s

RECURSIVE TrimRight(_)
TrimRight(s) ==
    IF s # <<>> /\ s[Len(s)] \in Whitespace
    THEN TrimRight(SubSeq(s, 1, Len(s) - 1))
    ELSE s

trim(s) == TrimRight(TrimLeft(s))

\* String.prototype.includes
includes(s, sub) ==
    \E i \in 1..(Len(s) - Len(sub) + 1) : SubSeq(s, i, i + Len(sub) - 1) = sub

\* index of the first occurrence of character c at or after position from; 0 if none
FirstIndex(s, c, from) ==
    IF \E i \in from..Len(s) : s[i] = c
    THEN CHOOSE i \in from..Len(s) : s[i] = c /\ \A k \in from..(i - 1) : s[k] # c
    ELSE 0

\* where the whitespace run that ends just before position p begins (the \s* of the patterns)
RunStart(s, p) ==
    CHOOSE i \in 1..p : /\ \A k \in i..(p - 1) : s[k] \in Whitespace
                        /\ (i = 1 \/ s[i - 1] \notin Whitespace)

\* s.replace(/\s*\([^)]*\)/, ''): the first parenthesised group and the blanks before it
StripParen(s) ==
    LET p == FirstIndex(s, "(", 1)
        q == IF p = 0 THEN 0 ELSE FirstIndex(s, ")", p + 1)
    IN  IF p = 0 \/ q = 0 THEN s
        ELSE SubSeq(s, 1, RunStart(s, p) - 1) \o SubSeq(s, q + 1, Len(s))

\* s.replace(/\s*\/.*/, ''): everything from the first slash, and the blanks before it
StripSlash(s) ==
    LET p == FirstIndex(s, "/", 1)
    IN  IF p = 0 THEN s ELSE SubSeq(s, 1, RunStart(s, p) - 1)

normalizedName(name) == trim(StripSlash(StripParen(toLowerCase(name))))


(***************************************************************************)
(* RiskDashboard.tsx: crop risk score                                      *)
(***************************************************************************)
\* fixed-point unit: U units are 1.0 (readings come in tenths, the multipliers'
\* common denominator is 20); a reading given in tenths is Tenths(x)
U == 10 * 20
Whole(n)  == n * U
Tenths(x) == x * (U \div 10)

Min2(a, b) == IF a < b THEN a ELSE b
Max2(a, b) == IF a > b THEN a ELSE b

\* Math.round: the nearest whole number, halves go up
MathRound(v) == ((v + (U \div 2)) \div U) * U

cropRiskProfiles ==
    [n \in {<<"w","h","e","a","t">>, <<"m","a","i","z","e">>, <<"r","i","c","e">>, <<"s","o","y","b","e","a","n">>, <<"t","o","m","a","t","o">>, <<"m","u","s","t","a","r","d">>, <<"s","u","g","a","r","c","a","n","e">>} |->
       CASE n = <<"w","h","e","a","t">> ->
              [optimalTemp |-> [min |-> 15, max |-> 25], optimalHumidity |-> [min |-> 40, max |-> 70],
               pestRiskHumidity |-> 75, frostRisk |-> 5, heatStress |-> 35,
               droughtTolerance |-> "medium", fungalRisk |-> [humidity |-> 80, temp |-> 20]]
         [] n = <<"m","a","i","z","e">> ->
              [optimalTemp |-> [min |-> 18, max |-> 30], optimalHumidity |-> [min |-> 50, max |-> 75],
               pestRiskHumidity |-> 70, frostRisk |-> 0, heatStress |-> 35,
               droughtTolerance |-> "low", fungalRisk |-> [humidity |-> 75, temp |-> 25]]
         [] n = <<"r","i","c","e">> ->
              [optimalTemp |-> [min |-> 20, max |-> 35], optimalHumidity |-> [min |-> 70, max |-> 90],
               pestRiskHumidity |-> 85, frostRisk |-> 10, heatStress |-> 40,
               droughtTolerance |-> "very_low", fungalRisk |-> [humidity |-> 90, temp |-> 28]]
         [] n = <<"s","o","y","b","e","a","n">> ->
              [optimalTemp |-> [min |-> 20, max |-> 30], optimalHumidity |-> [min |-> 60, max |-> 80],
               pestRiskHumidity |-> 75, frostRisk |-> 2, heatStress |-> 32,
               droughtTolerance |-> "medium", fungalRisk |-> [humidity |-> 85, temp |-> 22]]
         [] n = <<"t","o","m","a","t","o">> ->
              [optimalTemp |-> [min |-> 18, max |-> 28], optimalHumidity |-> [min |-> 50, max |-> 70],
               pestRiskHumidity |-> 75, frostRisk |-> 5, heatStress |-> 32,
               droughtTolerance |-> "low", fungalRisk |-> [humidity |-> 80, temp |-> 15]]
         [] n = <<"m","u","s","t","a","r","d">> ->
              [optimalTemp |-> [min |-> 15, max |-> 25], optimalHumidity |-> [min |-> 40, max |-> 65],
               pestRiskHumidity |-> 70, frostRisk |-> 0, heatStress |-> 30,
               droughtTolerance |-> "medium", fungalRisk |-> [humidity |-> 75, temp |-> 20]]
         [] n = <<"s","u","g","a","r","c","a","n","e">> ->
              [optimalTemp |-> [min |-> 25, max |-> 35], optimalHumidity |-> [min |-> 60, max |-> 85],
               pestRiskHumidity |-> 80, frostRisk |-> 8, heatStress |-> 42,
               droughtTolerance |-> "low", fungalRisk |-> [humidity |-> 85, temp |-> 30]]]

hasProfile(name) == normalizedName(name) \in DOMAIN cropRiskProfiles

\* a weather object: null, or a record whose fields may be missing (<<>>) or hold a reading
NullWeather == [null |-> TRUE, temperature |-> <<>>, humidity |-> <<>>, rain_1h |-> <<>>]
Reading(t, h, r) == [null |-> FALSE, temperature |-> t, humidity |-> h, rain_1h |-> r]

DefaultTemperature == 25
DefaultHumidity    == 60
DefaultRain        == 0

\* as Nullish, a missing value read as 0 instead of the default
NullishZero(w, field, dflt) ==
    IF w.null \/ w[field] = <<>> THEN 0 ELSE w[field][1]

\* weather?.field ?? dflt
Nullish(w, field, dflt) ==
    IF w.null \/ w[field] = <<>> THEN Whole(dflt) ELSE w[field][1]

\* as Clamp, the lower limit forgotten: Math.min(100, x)
ClampNoFloor(x) == Min2(Whole(100), x)

\* Math.min(100, Math.max(0, x))
Clamp(x) == Min2(Whole(100), Max2(0, x))

\* the branch for crops without a profile
genericRisk(temp, humidity, rain) ==
    Clamp((humidity - Whole(40))
          + (IF temp > Whole(32) THEN (temp - Whole(32)) * 2 ELSE 0)
          + (IF rain > Whole(5) THEN Whole(20) ELSE 0))

\* temperature stress: cold or heat deviation plus the frost or heat-stress bonus
temperatureStress(profile, temp) ==
    IF temp < Whole(profile.optimalTemp.min)
    THEN Min2(Whole(20), (Whole(profile.optimalTemp.min) - temp) * 2)
         + (IF temp < Whole(profile.frostRisk) THEN Whole(15) ELSE 0)
    ELSE IF temp > Whole(profile.optimalTemp.max)
    THEN Min2(Whole(25), ((temp - Whole(profile.optimalTemp.max)) * 3) \div 2)
         + (IF temp > Whole(profile.heatStress) THEN Whole(10) ELSE 0)
    ELSE 0

humidityStress(profile, humidity) ==
    IF humidity < Whole(profile.optimalHumidity.min)
    THEN Min2(Whole(15), ((Whole(profile.optimalHumidity.min) - humidity) * 3) \div 10)
    ELSE IF humidity > Whole(profile.optimalHumidity.max)
    THEN Min2(Whole(20), ((humidity - Whole(profile.optimalHumidity.max)) * 2) \div 5)
    ELSE 0

pestRisk(profile, humidity) ==
    IF humidity > Whole(profile.pestRiskHumidity)
    THEN Min2(Whole(15), (humidity - Whole(profile.pestRiskHumidity)) \div 2)
    ELSE 0

fungalRisk(profile, temp, humidity) ==
    IF humidity > Whole(profile.fungalRisk.humidity) /\ temp > Whole(profile.fungalRisk.temp)
    THEN Min2(Whole(20), ((humidity - Whole(profile.fungalRisk.humidity)) * 3) \div 10
                         + (temp - Whole(profile.fungalRisk.temp)) \div 2)
    ELSE 0

\* droughtMultiplier as a fraction num/den: 2.0, 1.5, 1.0, 0.5
droughtMultiplier(tolerance) ==
    CASE tolerance = "very_low" -> <<2, 1>>
      [] tolerance = "low"      -> <<3, 2>>
      [] tolerance = "medium"   -> <<1, 1>>
      [] tolerance = "high"     -> <<1, 2>>
      [] OTHER                  -> <<1, 1>>

droughtStress(profile, humidity, rain) ==
    IF rain = 0 /\ humidity < Whole(40)
    THEN LET m == droughtMultiplier(profile.droughtTolerance)
         IN  Min2(Whole(15), ((((Whole(40) - humidity) * 3) \div 10) * m[1]) \div m[2])
    ELSE 0

heavyRain(rain) ==
    IF rain > Whole(10) THEN Min2(Whole(10), rain \div 2) ELSE 0

profileRisk(profile, temp, humidity, rain) ==
    Clamp(MathRound(temperatureStress(profile, temp) + humidityStress(profile, humidity)
                    + pestRisk(profile, humidity) + fungalRisk(profile, temp, humidity)
                    + droughtStress(profile, humidity, rain) + heavyRain(rain)))

calculateCropRisk(name, w) ==
    LET temp     == Nullish(w, "temperature", DefaultTemperature)
        humidity == Nullish(w, "humidity", DefaultHumidity)
        rain     == Nullish(w, "rain_1h", DefaultRain)
    IN  IF hasProfile(name)
        THEN profileRisk(cropRiskProfiles[normalizedName(name)], temp, humidity, rain)
        ELSE genericRisk(temp, humidity, rain)

\* crop names: the defaults, names as the API documents them, and sign-up choices
CropNames ==
    {<<"R","i","c","e">>,
     <<"W","h","e","a","t">>,
     <<"T","o","m","a","t","o">>,
     <<"r","i","c","e">>,
     <<"c","o","t","t","o","n">>,
     <<"s","u","g","a","r","c","a","n","e">>,
     <<"R","i","c","e"," ","(","P","a","d","d","y",")">>,
     <<"M","a","i","z","e"," ","(","C","o","r","n",")">>,
     <<"M","u","s","t","a","r","d"," ","/"," ","R","a","p","e","s","e","e","d">>,
     <<"S","o","y","b","e","a","n"," ","(","d","u","a","l","-","p","u","r","p","o","s","e",")">>,
     <<"P","i","g","e","o","n"," ","P","e","a"," ","(","T","u","r","/","A","r","h","a","r",")">>,
     <<"O","r","a","n","g","e"," ","/"," ","C","i","t","r","u","s">>,
     <<"M","i","l","l","e","t"," ","(","B","a","j","r","a",","," ","R","a","g","i",")">>,
     <<" ","W","H","E","A","T"," ">>,
     <<"S","u","g","a","r","c","a","n","e">>,
     <<"S","o","y","b","e","a","n">>}

\* readings in tenths (degrees Celsius, percent, millimetres)
TemperatureReadings == {-125, -50, 0, 49, 95, 120, 150, 205, 250, 285, 301, 325, 360, 425, 517}
HumidityReadings    == {0, 15, 250, 399, 400, 600, 755, 860, 905, 1000}
RainReadings        == {0, 5, 55, 100, 105, 300}

Field(readings) == {<<>>} \cup {<<Tenths(x)>> : x \in readings}

WeatherInputs ==
    {NullWeather} \cup
    {Reading(t, h, r) : t \in Field(TemperatureReadings), h \in Field(HumidityReadings),
                        r \in Field(RainReadings)}

RiskInit ==
    /\ cropName \in CropNames
    /\ weather \in WeatherInputs
    /\ riskPc = "call"
    /\ riskOut = 0

\* one evaluation of calculateCropRisk(cropName, weather)
ComputeRisk ==
    /\ riskPc = "call"
    /\ riskOut' = calculateCropRisk(cropName, weather)
    /\ riskPc' = "returned"
    /\ UNCHANGED <<cropName, weather>>
    /\ UNCHANGED outsideRisk

\* the readings a null or partial weather object stands for, defaults written in
FilledIn(w) ==
    Reading(IF w.null \/ w.temperature = <<>> THEN <<Whole(25)>> ELSE w.temperature,
            IF w.null \/ w.humidity = <<>> THEN <<Whole(60)>> ELSE w.humidity,
            IF w.null \/ w.rain_1h = <<>> THEN <<0>> ELSE w.rain_1h)

Incomplete(w) == w.null \/ w.temperature = <<>> \/ w.humidity = <<>> \/ w.rain_1h = <<>>

\* C1: whatever the crop name and the weather reading (a null weather object and
\* missing fields included), calculateCropRisk returns a value between 0 and 100,
\* and a whole number when the crop has a risk profile.
C1_RiskInRange ==
    riskPc = "returned" =>
        /\ 0 <= riskOut /\ riskOut <= Whole(100)
        /\ hasProfile(cropName) => riskOut % U = 0

C1_Witness ==
    /\ riskPc = "returned"
    /\ hasProfile(cropName) /\ cropName # normalizedName(cropName)
    /\ Incomplete(weather) /\ ~weather.null
    /\ riskOut >= Whole(40)

\* C2: for a null weather object or one lacking temperature, humidity or rain_1h,
\* the result equals the result for the reading with 25, 60 and 0 filled in for the
\* missing values, for every crop name, and a value is always returned.
C2_DefaultsSubstituted ==
    (riskPc = "returned" /\ Incomplete(weather)) =>
        /\ riskOut = calculateCropRisk(cropName, FilledIn(weather))
        /\ riskOut \in Int

C2_Witness ==
    /\ riskPc = "returned"
    /\ weather.null
    /\ ~hasProfile(cropName)
    /\ riskOut = Whole(20)

\* the points the temperature step adds for the crop and reading of this call
temperaturePoints ==
    temperatureStress(cropRiskProfiles[normalizedName(cropName)],
                      Nullish(weather, "temperature", DefaultTemperature))

\* C11: for every crop with a risk profile and every temperature, the temperature
\* step of calculateCropRisk (cold or heat deviation plus the frost or heat-stress
\* bonus) adds between 0 and 30 points to the risk score.
C11_TemperatureStepRange ==
    (riskPc = "returned" /\ hasProfile(cropName)) =>
        /\ 0 <= temperaturePoints
        /\ temperaturePoints <= Whole(30)

(***************************************************************************)
(* RAG query pipeline, as documented: the graph returned by               *)
(* GET /api/v1/rag/graph/visualize and the RAGState transitions            *)
(***************************************************************************)
MAX_TOP_K == 20

RagNodes == [embed |-> "EmbedNode", retrieve |-> "RetrieveNode", generate |-> "GenerateNode"]

\* as RagEdges, with an edge from embed straight to generate
RagEdgesSkipRetrieve ==
    {<<"START", "embed">>, <<"embed", "generate">>, <<"retrieve", "generate">>,
     <<"generate", "END">>}

\* the documented edges; every edge has condition null
RagEdges ==
    {<<"START", "embed">>, <<"embed", "retrieve">>, <<"retrieve", "generate">>,
     <<"generate", "END">>}

\* the nodes control can move to from node n
RagSuccessors(n) == {e[2] : e \in {d \in RagEdges : d[1] = n}}

RagQueries == {"What fertilizer for rice?", "wheat sowing time", "tomato leaf spots"}
RagFilters == {"None", "region=Tamil Nadu,season=kharif"}

\* the initial RAGState of a validated QueryRequest
InitialRagState(q, k, f) ==
    [query |-> q, top_k |-> k, filters |-> f, query_embedding |-> "None",
     retrieved_chunks |-> "None", answer |-> "None"]

RagInit ==
    /\ ragPc = "START"
    /\ ragState \in {InitialRagState(q, k, f) : q \in RagQueries, k \in 1..MAX_TOP_K,
                                                 f \in RagFilters}
    /\ ragTrace = <<>>

\* pipeline execution begins: control moves along the edge out of START
RagStart ==
    /\ ragPc = "START"
    /\ ragPc' \in RagSuccessors("START")
    /\ UNCHANGED <<ragState, ragTrace>>
    /\ UNCHANGED outsideRag

\* EmbedNode: the query becomes a vector
EmbedNode ==
    /\ ragPc = "embed"
    /\ ragState' = [ragState EXCEPT !.query_embedding = "embedding"]
    /\ ragTrace' = Append(ragTrace, RagNodes.embed)
    /\ ragPc' \in RagSuccessors("embed")
    /\ UNCHANGED outsideRag

\* RetrieveNode: top-k similar chunks for the embedding
RetrieveNode ==
    /\ ragPc = "retrieve"
    /\ ragState' = [ragState EXCEPT !.retrieved_chunks =
                        IF ragState.query_embedding = "None" THEN "None" ELSE "chunks"]
    /\ ragTrace' = Append(ragTrace, RagNodes.retrieve)
    /\ ragPc' \in RagSuccessors("retrieve")
    /\ UNCHANGED outsideRag

\* GenerateNode: the answer from the query and the retrieved chunks
GenerateNode ==
    /\ ragPc = "generate"
    /\ ragState' = [ragState EXCEPT !.answer =
                        IF ragState.retrieved_chunks = "None" THEN "None" ELSE "answer"]
    /\ ragTrace' = Append(ragTrace, RagNodes.generate)
    /\ ragPc' \in RagSuccessors("generate")
    /\ UNCHANGED outsideRag

NextRag == RagStart \/ EmbedNode \/ RetrieveNode \/ GenerateNode

PipelineOrder == <<"EmbedNode", "RetrieveNode", "GenerateNode">>

Components == {"Chatbot", "ChatbotPopup"}

\* bounds: messages kept in the list, fragments typed into the input, sources returned
MaxMessages == 3
MaxFragments == 2
MaxSources == 2

NoToast == [title |-> "none", description |-> "none", variant |-> "none"]
Toast(title, description, variant) ==
    [title |-> title, description |-> description, variant |-> variant]
ErrorToast(description) == Toast("Error", description, "destructive")

KW_WHEAT      == <<"w","h","e","a","t">>
KW_RICE       == <<"r","i","c","e">>
KW_FERTILIZER == <<"f","e","r","t","i","l","i","z","e","r">>
KW_PEST       == <<"p","e","s","t">>
KW_DISEASE    == <<"d","i","s","e","a","s","e">>

\* generateFallbackResponse: the first keyword found in the lower-cased query decides
generateFallbackResponse(c, query) ==
    LET lowerQuery == toLowerCase(query)
        which == IF includes(lowerQuery, KW_WHEAT) THEN "wheat"
                 ELSE IF includes(lowerQuery, KW_RICE) THEN "rice"
                 ELSE IF includes(lowerQuery, KW_FERTILIZER) THEN "fertilizer"
                 ELSE IF includes(lowerQuery, KW_PEST) \/ includes(lowerQuery, KW_DISEASE)
                      THEN "pest"
                 ELSE "general"
    IN  IF c = "Chatbot"
        THEN <<"t", "chatbot.fallback_responses", which>>
        ELSE <<"text", which>>

\* the source label shown with a fallback answer
fallbackSource(c) ==
    IF c = "Chatbot" THEN "t:chatbot.fallback_source" ELSE "General Agricultural Knowledge"

welcomeMessage(c) ==
    [role |-> "assistant",
     content |-> IF c = "Chatbot" THEN <<"t", "chatbot.welcome_message">> ELSE <<"text", "welcome">>,
     sources |-> <<>>]

\* what the user can have typed: up to MaxFragments pieces
Fragments ==
    {<<"W","h","e","a","t">>, <<"r","i","c","e">>, <<"F","e","r","t","i","l","i","z","e","r">>, <<"p","e","s","t">>,
     <<"D","I","S","E","A","S","E">>, <<" ">>, <<"s","o","i","l">>}

RECURSIVE Typed(_)
Typed(n) ==
    IF n = 0 THEN {<<>>}
    ELSE Typed(n - 1) \cup {s \o f : s \in Typed(n - 1), f \in Fragments}

InputStrings == Typed(MaxFragments)

\* as userMessageContent, the input sent as typed
userMessageUntrimmed(inp) == inp

\* the content of the user's message: input.trim()
userMessageContent(inp) == trim(inp)

\* as sendIgnored, a blank input not being checked
sendIgnoredLoadingOnly(inp, ld) == ld

\* the guard of sendMessage: if (!input.trim() || loading) return
sendIgnored(inp, ld) == trim(inp) = <<>> \/ ld

\* the body of the POST /api/v1/rag/query request
queryRequest(content) == [query |-> content, top_k |-> 5, filters |-> "null"]

\* responses: HTTP-ok with a RAGResponse body, HTTP-ok with a body that is not one,
\* a non-ok status, or a failed fetch
SourceNames == {"rice_cultivation_guide.pdf", "fertilizer_recommendations.pdf"}

RECURSIVE SourceLists(_)
SourceLists(n) ==
    IF n = 0 THEN {<<>>}
    ELSE SourceLists(n - 1) \cup
         {Append(l, [source |-> x, chunk_id |-> Len(l) + 1]) : l \in SourceLists(n - 1),
                                                              x \in SourceNames}

RagResponses ==
    {[kind |-> "ok", status |-> 200, answer |-> a, sources |-> l, retrieved_chunks |-> n]
        : a \in {"", "Apply NPK 4:2:1"}, l \in SourceLists(MaxSources), n \in 0..MaxSources}
    \cup {[kind |-> "badbody", status |-> 200]}
    \cup {[kind |-> "http", status |-> st] : st \in {401, 422, 500}}
    \cup {[kind |-> "network", status |-> 0]}

\* err.message in the catch block
chatErrorMessage(resp) ==
    CASE resp.kind = "http"    -> <<"HTTP", resp.status>>
      [] resp.kind = "badbody" -> <<"TypeError">>
      [] OTHER                 -> <<"Failed to fetch">>

\* as assistantMessage, the fallback taken only when both answer and chunks are empty
assistantMessageBothEmpty(c, query, resp) ==
    IF resp.kind = "ok"
    THEN IF resp.answer = "" /\ resp.retrieved_chunks = 0
         THEN [role |-> "assistant", content |-> generateFallbackResponse(c, query),
               sources |-> <<fallbackSource(c)>>]
         ELSE [role |-> "assistant", content |-> <<"answer", resp.answer>>,
               sources |-> [i \in 1..Len(resp.sources) |-> resp.sources[i].source]]
    ELSE [role |-> "assistant", content |-> <<"error", chatErrorMessage(resp)>>,
          sources |-> <<>>]

\* the assistant message appended for a response
assistantMessage(c, query, resp) ==
    IF resp.kind = "ok"
    THEN IF resp.answer = "" \/ resp.retrieved_chunks = 0
         THEN [role |-> "assistant", content |-> generateFallbackResponse(c, query),
               sources |-> <<fallbackSource(c)>>]
         ELSE [role |-> "assistant", content |-> <<"answer", resp.answer>>,
               sources |-> [i \in 1..Len(resp.sources) |-> resp.sources[i].source]]
    ELSE [role |-> "assistant", content |-> <<"error", chatErrorMessage(resp)>>,
          sources |-> <<>>]

\* the toast of Chatbot.tsx after a response; ChatbotPopup shows none
chatToast(c, resp, old) ==
    IF c # "Chatbot" THEN old
    ELSE IF resp.kind = "ok"
    THEN Toast("t:chatbot.response_generated",
               IF resp.retrieved_chunks > 0 THEN "t:chatbot.response_desc_with_sources"
               ELSE "t:chatbot.response_desc_fallback", "default")
    ELSE Toast("t:chatbot.error", "t:chatbot.error_desc", "destructive")

ChatInit ==
    /\ component \in Components
    /\ messages = <<welcomeMessage(component)>>
    /\ input = <<>>
    /\ loading = FALSE
    /\ chatReq = <<>>
    /\ chatLast = [op |-> "none"]

\* onChange of the input box (the box is disabled while loading); typing is
\* explored while the message list still has room for an exchange
TypeInput(s) ==
    /\ ~loading
    /\ Len(messages) + 2 <= MaxMessages
    /\ s # input
    /\ input' = s
    /\ chatLast' = [op |-> "type"]
    /\ UNCHANGED <<component, messages, loading, chatReq, toast>>
    /\ UNCHANGED outsideChat

\* sendMessage up to the fetch
SendMessage ==
    /\ Len(messages) + 2 <= MaxMessages \/ sendIgnored(input, loading)
    /\ chatLast' = [op |-> IF sendIgnored(input, loading) THEN "ignored" ELSE "sent",
                    typed |-> input, loading |-> loading, messages |-> messages,
                    chatReq |-> chatReq]
    /\ IF sendIgnored(input, loading)
       THEN UNCHANGED <<component, messages, input, loading, chatReq, toast>>
       ELSE /\ messages' = Append(messages, [role |-> "user",
                                            content |-> userMessageContent(input),
                                            sources |-> <<>>])
            /\ input' = <<>>
            /\ loading' = TRUE
            /\ chatReq' = Append(chatReq, queryRequest(userMessageContent(input)))
            /\ UNCHANGED <<component, toast>>
    /\ UNCHANGED outsideChat

\* sendMessage from the fetch's result on
ChatResponse(resp) ==
    /\ chatReq # <<>>
    /\ messages' = Append(messages, assistantMessage(component, chatReq[1].query, resp))
    /\ toast' = chatToast(component, resp, toast)
    /\ loading' = FALSE
    /\ chatReq' = Tail(chatReq)
    /\ chatLast' = [op |-> "response", query |-> chatReq[1].query, resp |-> resp]
    /\ UNCHANGED <<component, input>>
    /\ UNCHANGED outsideChat

NextChat ==
    \/ \E s \in InputStrings : TypeInput(s)
    \/ SendMessage
    \/ \E resp \in RagResponses : ChatResponse(resp)

\* the keywords a query mentions, case ignored
Mentions(query) ==
    {k \in {KW_WHEAT, KW_RICE, KW_FERTILIZER, KW_PEST, KW_DISEASE} :
        \E i \in 1..Len(query) :
            /\ i + Len(k) - 1 <= Len(query)
            /\ \A j \in 1..Len(k) : LowerChar(query[i + j - 1]) = k[j]}

\* the fallback topic by priority: wheat, rice, fertilizer, pest or disease, general
FallbackTopic(query) ==
    LET m == Mentions(query)
    IN  CASE KW_WHEAT \in m -> "wheat"
          [] KW_WHEAT \notin m /\ KW_RICE \in m -> "rice"
          [] {KW_WHEAT, KW_RICE} \cap m = {} /\ KW_FERTILIZER \in m -> "fertilizer"
          [] {KW_WHEAT, KW_RICE, KW_FERTILIZER} \cap m = {} /\ m # {} -> "pest"
          [] OTHER -> "general"

LastMessage == messages[Len(messages)]

\* C4: in both chat components, after an HTTP-ok response carrying a RAG answer
\* body: if the answer is empty or no chunk was retrieved, the appended assistant
\* message has the keyword-selected fallback text as content and exactly one
\* source, the component's fallback source label; otherwise its content is the
\* returned answer and its sources are the returned sources' names, in order.
C4_OkResponseMessage ==
    (chatLast.op = "response" /\ chatLast.resp.kind = "ok") =>
        LET r == chatLast.resp
            m == LastMessage
        IN  /\ m.role = "assistant"
            /\ IF r.answer = "" \/ r.retrieved_chunks = 0
               THEN /\ m.content[Len(m.content)] = FallbackTopic(chatLast.query)
                    /\ m.content[1] = (IF component = "Chatbot" THEN "t" ELSE "text")
                    /\ Len(m.sources) = 1
                    /\ m.sources[1] = (IF component = "Chatbot"
                                       THEN "t:chatbot.fallback_source"
                                       ELSE "General Agricultural Knowledge")
               ELSE /\ m.content = <<"answer", r.answer>>
                    /\ Len(m.sources) = Len(r.sources)
                    /\ \A i \in 1..Len(r.sources) : m.sources[i] = r.sources[i].source

C4_Witness ==
    /\ chatLast.op = "response" /\ chatLast.resp.kind = "ok"
    /\ chatLast.resp.answer # "" /\ chatLast.resp.retrieved_chunks = 0
    /\ Len(chatLast.resp.sources) = 2
    /\ Mentions(chatLast.query) = {KW_RICE, KW_DISEASE}
    /\ LastMessage.content = <<"text", "rice">>
    /\ component = "ChatbotPopup"

\* C5: every request the chat components send to POST /api/v1/rag/query carries a
\* non-empty query without leading or trailing whitespace, top_k = 5 and
\* filters = null, so top_k is within 1..20 and the query has at least 1 character.
C5_RequestWellFormed ==
    \A i \in 1..Len(chatReq) :
        LET q == chatReq[i].query
        IN  /\ Len(q) >= 1
            /\ q[1] \notin Whitespace /\ q[Len(q)] \notin Whitespace
            /\ chatReq[i].top_k = 5
            /\ chatReq[i].top_k >= 1 /\ chatReq[i].top_k <= MAX_TOP_K
            /\ chatReq[i].filters = "null"

C5_Witness ==
    /\ chatReq # <<>>
    /\ chatLast.op = "sent"
    /\ chatLast.typed = <<" ","r","i","c","e">>
    /\ chatReq[1].query = <<"r","i","c","e">>
    /\ LastMessage.role = "user" /\ LastMessage.content = chatReq[1].query

\* C15: in both chat components sendMessage changes nothing (messages, input and
\* loading as before, no request sent) when the input is blank after trimming or
\* loading is true; at most one chat request of the component is in flight.
C15_SendIgnoredWhenBlankOrLoading ==
    /\ (chatLast.op \in {"sent", "ignored"}
         /\ (trim(chatLast.typed) = <<>> \/ chatLast.loading)) =>
            /\ messages = chatLast.messages
            /\ input = chatLast.typed
            /\ loading = chatLast.loading
            /\ chatReq = chatLast.chatReq
    /\ Len(chatReq) <= 1

C15_Witness ==
    /\ chatLast.op = "ignored"
    /\ chatLast.loading
    /\ Len(chatReq) = 1
    /\ LastMessage.role = "user"

(***************************************************************************)
(* Auth page (sign in, sign up, mount effect) and Dashboard page           *)
(* (checkAuth), sharing localStorage and the router                        *)
(***************************************************************************)
\* bounds: submissions the user makes on the Auth page, longest password tried
MaxUserActions == 2
MaxPasswordLen == 9

MinPasswordLen == 8

StoredToken == "jwt-stored"
LoginToken  == "jwt-login"

\* the two builds of the Dashboard page: with and without the greeting by name
DashVariants == {"greeting", "plain"}

\* how GET /auth/user/me answers during a run
BackendBehaviours ==
    {"200", "200-unreadable", "401", "403", "404", "500", "unreachable"}

MeResponses(b) ==
    CASE b = "200" ->
            {[kind |-> "http", status |-> 200, ok |-> TRUE, body |-> "json", full_name |-> n]
                : n \in {"", "Rajesh Kumar"}}
      [] b = "200-unreadable" ->
            {[kind |-> "http", status |-> 200, ok |-> TRUE, body |-> "unreadable",
              full_name |-> ""]}
      [] b = "unreachable" ->
            {[kind |-> "network", status |-> 0, ok |-> FALSE, body |-> "none", full_name |-> ""]}
      [] OTHER ->
            {[kind |-> "http", ok |-> FALSE, body |-> "json", full_name |-> "",
              status |-> CASE b = "401" -> 401 [] b = "403" -> 403 [] b = "404" -> 404
                           [] OTHER -> 500]}

\* answers of POST /auth/login and POST /auth/signup: data is the parsed body, {} when
\* the body cannot be read (res.json().catch(() => ({})))
LoginResponses ==
    {[kind |-> "http", status |-> 200, ok |-> TRUE, access_token |-> t, detail |-> "none"]
        : t \in {LoginToken, ""}}
    \cup {[kind |-> "http", status |-> 401, ok |-> FALSE, access_token |-> "",
           detail |-> "Invalid credentials"],
          [kind |-> "http", status |-> 422, ok |-> FALSE, access_token |-> "",
           detail |-> "array"],
          [kind |-> "http", status |-> 500, ok |-> FALSE, access_token |-> "",
           detail |-> "none"],
          [kind |-> "network", status |-> 0, ok |-> FALSE, access_token |-> "",
           detail |-> "none"]}

SignupResponses ==
    {[kind |-> "http", status |-> 200, ok |-> TRUE, detail |-> "none"],
     [kind |-> "http", status |-> 400, ok |-> FALSE, detail |-> "Email already registered"],
     [kind |-> "http", status |-> 422, ok |-> FALSE, detail |-> "array"],
     [kind |-> "http", status |-> 500, ok |-> FALSE, detail |-> "none"],
     [kind |-> "network", status |-> 0, ok |-> FALSE, detail |-> "none"]}

\* the message of the Error thrown for a response that is not ok, or of the fetch failure
failureMessage(resp, fallback) ==
    IF resp.kind = "network" THEN "Failed to fetch"
    ELSE IF resp.status = 422 /\ resp.detail = "array" THEN "field: msg"
    ELSE IF resp.detail # "none" THEN resp.detail
    ELSE fallback

\* sign-up form contents
FarmSizes      == {"", "medium"}
CropSelections == {{}, {"Rice (Paddy)", "Wheat"}}
PasswordChars  == {"a", "Z", "7", "#"}
Letters        == {Upper[i] : i \in 1..26} \cup {Lower[i] : i \in 1..26}
Digits         == {"0", "1", "2", "3", "4", "5", "6", "7", "8", "9"}

Passwords ==
    {[i \in 1..n |-> IF i < n THEN c ELSE d]
        : n \in {0} \cup ((MinPasswordLen - 1)..MaxPasswordLen),
          c \in PasswordChars, d \in PasswordChars}

SignUpForms ==
    [farmSize : FarmSizes, selectedCrops : CropSelections, password : Passwords]

\* /[A-Za-z]/.test(password) and /\d/.test(password)
hasLetter(password) == \E i \in 1..Len(password) : password[i] \in Letters
hasDigit(password)  == \E i \in 1..Len(password) : password[i] \in Digits

\* as passwordRejected, the digit requirement forgotten
passwordRejectedNoDigit(password) ==
    Len(password) < MinPasswordLen \/ ~hasLetter(password)

\* the password check of handleSignUp: true when the password is rejected
passwordRejected(password) ==
    Len(password) < MinPasswordLen \/ ~hasLetter(password) \/ ~hasDigit(password)

\* the first validation of handleSignUp that fails, "" when all pass
signUpError(form) ==
    IF form.farmSize = "" THEN "Please select a farm size."
    ELSE IF form.selectedCrops = {} THEN "Please select at least one primary crop."
    ELSE IF passwordRejected(form.password)
    THEN "Password must be at least 8 characters and include letters and numbers."
    ELSE ""

\* as loginAccepted, the token's presence not checked
loginAcceptedAnyOk(resp) == resp.ok

\* handleSignIn: the response that stores the token and opens the dashboard
loginAccepted(resp) == resp.ok /\ resp.access_token # ""

AuthInit ==
    /\ token \in {"", StoredToken}
    /\ page \in {"/auth", "/dashboard"}
    /\ toast = NoToast
    /\ authPc = (IF page = "/auth" THEN "mount" ELSE "unmounted")
    /\ authLoading = FALSE
    /\ authReq = <<>>
    /\ authLast = [op |-> "none"]
    /\ userBudget = MaxUserActions
    /\ dashVariant \in DashVariants
    /\ backend \in BackendBehaviours
    /\ checkPc = (IF page = "/dashboard" THEN "mount" ELSE "unmounted")
    /\ checking = TRUE
    /\ userName = ""
    /\ dashLast = [op |-> "none"]

\* navigate("/dashboard") from the Auth page: Dashboard mounts with fresh state
OpenDashboard ==
    /\ page' = "/dashboard"
    /\ authPc' = "unmounted"
    /\ checkPc' = "mount"
    /\ checking' = TRUE
    /\ userName' = ""

\* navigate("/auth") from the Dashboard page: Auth mounts with fresh state
OpenAuth ==
    /\ page' = "/auth"
    /\ checkPc' = "unmounted"
    /\ authPc' = "mount"
    /\ authLoading' = FALSE

\* Auth's mount effect: a stored token sends the user to the dashboard
AuthMountEffect ==
    /\ page = "/auth" /\ authPc = "mount"
    /\ IF token # ""
       THEN OpenDashboard
       ELSE authPc' = "ready" /\ UNCHANGED <<page, checkPc, checking, userName>>
    /\ authLast' = [op |-> "mountEffect"]
    /\ UNCHANGED <<token, toast, authLoading, authReq, userBudget, dashVariant, backend,
                   dashLast>>
    /\ UNCHANGED outsideAuth

\* handleSignIn up to the fetch (the submit button is disabled while loading)
SignInSubmit ==
    /\ page = "/auth" /\ authPc = "ready" /\ ~authLoading
    /\ userBudget > 0
    /\ userBudget' = userBudget - 1
    /\ authLoading' = TRUE
    /\ authReq' = <<[kind |-> "login"]>>
    /\ authLast' = [op |-> "signInSubmit"]
    /\ UNCHANGED <<token, page, toast, authPc, dashVariant, backend, checkPc, checking,
                   userName, dashLast>>
    /\ UNCHANGED outsideAuth

\* handleSignIn from the fetch's result on
SignInResponse(resp) ==
    /\ authReq # <<>> /\ authReq[1].kind = "login"
    /\ authReq' = <<>>
    /\ authLast' = [op |-> "signIn", resp |-> resp]
    /\ IF loginAccepted(resp)
       THEN /\ token' = resp.access_token
            /\ OpenDashboard
            /\ authLoading' = FALSE
            /\ UNCHANGED toast
       ELSE /\ toast' = ErrorToast(IF resp.ok THEN "No access token returned"
                                   ELSE failureMessage(resp, "Login failed"))
            /\ authLoading' = FALSE
            /\ UNCHANGED <<token, page, authPc, checkPc, checking, userName>>
    /\ UNCHANGED <<userBudget, dashVariant, backend, dashLast>>
    /\ UNCHANGED outsideAuth

\* handleSignUp up to the fetch: the three validations, then the request
SignUpSubmit(form) ==
    /\ page = "/auth" /\ authPc = "ready" /\ ~authLoading
    /\ userBudget > 0
    /\ userBudget' = userBudget - 1
    /\ authLast' = [op |-> "signUpSubmit", form |-> form]
    /\ IF signUpError(form) # ""
       THEN /\ toast' = ErrorToast(signUpError(form))
            /\ authLoading' = FALSE
            /\ UNCHANGED authReq
       ELSE /\ authLoading' = TRUE
            /\ authReq' = <<[kind |-> "signup", farm_size |-> form.farmSize,
                             primary_crops |-> form.selectedCrops,
                             password |-> form.password]>>
            /\ UNCHANGED toast
    /\ UNCHANGED <<token, page, authPc, dashVariant, backend, checkPc, checking, userName,
                   dashLast>>
    /\ UNCHANGED outsideAuth

\* handleSignUp from the fetch's result on
SignUpResponse(resp) ==
    /\ authReq # <<>> /\ authReq[1].kind = "signup"
    /\ authReq' = <<>>
    /\ authLast' = [op |-> "signUp", resp |-> resp]
    /\ toast' = IF resp.ok
                THEN Toast("Success!", "Account created successfully. You can now sign in.",
                           "default")
                ELSE ErrorToast(failureMessage(resp, "Signup failed"))
    /\ authLoading' = FALSE
    /\ UNCHANGED <<token, page, authPc, userBudget, dashVariant, backend, checkPc, checking,
                   userName, dashLast>>
    /\ UNCHANGED outsideAuth

\* checkAuth up to the fetch: without a token, straight to /auth
DashCheckAuthStart ==
    /\ page = "/dashboard" /\ checkPc = "mount"
    /\ IF token = ""
       THEN /\ OpenAuth
            /\ dashLast' = [op |-> "checkAuth", called |-> FALSE]
            /\ UNCHANGED <<checking, userName>>
       ELSE /\ checkPc' = "fetching"
            /\ dashLast' = [op |-> "checkAuth", called |-> TRUE]
            /\ UNCHANGED <<page, authPc, authLoading, checking, userName>>
    /\ UNCHANGED <<token, toast, authReq, authLast, userBudget, dashVariant, backend>>
    /\ UNCHANGED outsideAuth

\* does checkAuth end in its catch block: the fetch failed, or (greeting build) the
\* body of an ok answer could not be read
checkAuthThrows(variant, resp) ==
    \/ resp.kind = "network"
    \/ variant = "greeting" /\ resp.ok /\ resp.body = "unreadable"

\* checkAuth from the fetch's result on
DashCheckAuthResponse(resp) ==
    /\ page = "/dashboard" /\ checkPc = "fetching"
    /\ dashLast' = [op |-> "checkAuthResponse", resp |-> resp]
    /\ checking' = FALSE
    /\ IF resp.kind = "http" /\ resp.status \in {401, 403}
       THEN /\ token' = ""
            /\ OpenAuth
            /\ UNCHANGED userName
       ELSE IF checkAuthThrows(dashVariant, resp)
       THEN /\ OpenAuth
            /\ UNCHANGED <<token, userName>>
       ELSE /\ checkPc' = "done"
            /\ userName' = IF dashVariant = "greeting" /\ resp.ok /\ resp.full_name # ""
                           THEN resp.full_name ELSE userName
            /\ UNCHANGED <<token, page, authPc, authLoading>>
    /\ UNCHANGED <<toast, authReq, authLast, userBudget, dashVariant, backend>>
    /\ UNCHANGED outsideAuth

NextAuth ==
    \/ AuthMountEffect
    \/ SignInSubmit
    \/ \E resp \in LoginResponses : SignInResponse(resp)
    \/ \E form \in SignUpForms : SignUpSubmit(form)
    \/ \E resp \in SignupResponses : SignUpResponse(resp)
    \/ DashCheckAuthStart
    \/ \E resp \in MeResponses(backend) : DashCheckAuthResponse(resp)

\* a handleSignIn run ends when its login request is answered
SignInAnswered == authReq # <<>> /\ authReq[1].kind = "login" /\ authReq' = <<>>

\* C7: handleSignIn writes access_token to localStorage and navigates to /dashboard
\* only when the login response is HTTP-ok and contains an access_token; on a non-ok
\* response, an ok response without a token, or a network error, localStorage and
\* the page are unchanged, an error toast is shown, and loading is false again.
C7_SignInOutcome ==
    [][SignInAnswered =>
         LET r == authLast'.resp
         IN  /\ (token' # token \/ page' # page) => (r.ok /\ r.access_token # "")
             /\ (r.ok /\ r.access_token # "") =>
                    (token' = r.access_token /\ page' = "/dashboard")
             /\ ~(r.ok /\ r.access_token # "") =>
                    /\ token' = token /\ page' = page
                    /\ toast'.variant = "destructive" /\ toast'.title = "Error"
                    /\ authLoading' = FALSE]_vars

C7_Witness ==
    /\ authLast.op = "signIn"
    /\ authLast.resp.ok /\ authLast.resp.access_token = ""
    /\ token = "" /\ page = "/auth"
    /\ toast = ErrorToast("No access token returned")
    /\ ~authLoading

\* a handleSignUp run begins
SignUpSubmitted == authLast'.op = "signUpSubmit" /\ userBudget' # userBudget

FormAcceptable(form) ==
    /\ form.farmSize # ""
    /\ Cardinality(form.selectedCrops) >= 1
    /\ Len(form.password) >= 8
    /\ \E i \in 1..Len(form.password) : form.password[i] \in Letters
    /\ \E i \in 1..Len(form.password) : form.password[i] \in Digits

\* C8: handleSignUp sends the POST /auth/signup request only if a farm size is
\* selected, at least one primary crop is selected, and the password has at least 8
\* characters with at least one letter and one digit; when any of these fails no
\* request is sent, an error toast is shown, and loading is false again.
C8_SignUpValidated ==
    [][SignUpSubmitted =>
         IF FormAcceptable(authLast'.form)
         THEN authReq' # <<>> /\ authReq'[1].kind = "signup"
         ELSE /\ authReq' = <<>>
              /\ toast'.variant = "destructive" /\ toast'.title = "Error"
              /\ authLoading' = FALSE]_vars

C8_Witness ==
    /\ authLast.op = "signUpSubmit"
    /\ authLast.form.farmSize # "" /\ authLast.form.selectedCrops # {}
    /\ Len(authLast.form.password) = 8 /\ ~hasDigit(authLast.form.password)
    /\ authReq = <<>>
    /\ toast.variant = "destructive"
    /\ ~authLoading

\* a checkAuth run is answered by the backend
CheckAuthAnswered == checkPc = "fetching" /\ checkPc' # "fetching"

\* C6: mounted without an access_token the Dashboard navigates to /auth without
\* calling the backend; when GET /auth/user/me answers 401 or 403 it removes the
\* token and navigates to /auth; for any other response status it neither removes
\* the token nor navigates.
C6_CheckAuthByStatus ==
    [][/\ (page = "/dashboard" /\ checkPc = "mount" /\ token = "" /\ checkPc' # "mount") =>
              (page' = "/auth" /\ checkPc' # "fetching" /\ ~dashLast'.called)
       /\ (CheckAuthAnswered /\ dashLast'.resp.kind = "http") =>
              IF dashLast'.resp.status \in {401, 403}
              THEN token' = "" /\ page' = "/auth"
              ELSE token' = token /\ page' = page]_vars

\* no mount effect is waiting to run and no checkAuth request is in flight
Settled ==
    /\ ~(page = "/auth" /\ authPc = "mount")
    /\ ~(page = "/dashboard" /\ checkPc \in {"mount", "fetching"})

\* C10: whatever the stored token and the backend's behaviour, the redirects of the
\* Auth mount effect and of the Dashboard's checkAuth come to an end: from some
\* point on no redirect is pending and the app stays on one page.
C10_NavigationSettles == <>[]Settled

(***************************************************************************)
(* LocalizedAdvisory.tsx: the DiseaseDetection component that calls        *)
(* POST /crop_disease/detect-disease                                       *)
(***************************************************************************)
Files == {"leaf1.jpg", "leaf2.jpg"}

prediction(file) == [crop |-> "Tomato", disease |-> "Late blight", image |-> file]

\* answers of POST /crop_disease/detect-disease
DetectResponses ==
    {[kind |-> "http", ok |-> TRUE, status |-> 200, body |-> b]
        : b \in {"prediction", "failed:error", "failed", "unreadable"}}
    \cup {[kind |-> "http", ok |-> FALSE, status |-> st, body |-> b]
            : st \in {401, 500}, b \in {"detail", "empty", "unreadable"}}
    \cup {[kind |-> "network", ok |-> FALSE, status |-> 0, body |-> "none"]}

\* the message of the error caught by handleAnalyze for a response without prediction
detectFailure(resp) ==
    IF resp.kind = "network" THEN "Failed to fetch"
    ELSE IF resp.body = "unreadable" THEN "Unexpected token"
    ELSE IF ~resp.ok
    THEN (IF resp.body = "detail" THEN "detail" ELSE "HTTP error! status")
    ELSE IF resp.body = "failed:error" THEN "error"
    ELSE "Analysis failed"

\* as tokenMissing, the check always passing
tokenNeverMissing(tok) == FALSE

\* const token = localStorage.getItem("access_token"); if (!token)
tokenMissing(tok) == tok = ""

DisInit ==
    /\ token \in {"", StoredToken}
    /\ page = "/dashboard"
    /\ toast = NoToast
    /\ selectedFile = ""
    /\ imagePreview = <<>>
    /\ reading = {}
    /\ isAnalyzing = FALSE
    /\ result = <<>>
    /\ disReq = <<>>
    /\ disLast = [op |-> "none"]

\* handleFileChange with a chosen file: select it, start reading it, drop the result
handleFileChange(file) ==
    /\ selectedFile' = file
    /\ reading' = reading \cup {file}
    /\ result' = <<>>
    /\ disLast' = [op |-> "handleFileChange"]
    /\ UNCHANGED <<imagePreview, isAnalyzing, disReq, token, toast>>
    /\ UNCHANGED outsideDis

\* reader.onload: the preview of a file that was being read
ReaderOnload(file) ==
    /\ file \in reading
    /\ reading' = reading \ {file}
    /\ imagePreview' = <<"data", file>>
    /\ disLast' = [op |-> "onload"]
    /\ UNCHANGED <<selectedFile, isAnalyzing, result, disReq, token, toast>>
    /\ UNCHANGED outsideDis

\* handleAnalyze up to the fetch (the Analyze button is disabled while analysing)
handleAnalyze ==
    /\ ~isAnalyzing
    /\ disLast' = [op |-> "handleAnalyze", file |-> selectedFile, token |-> token,
                   result |-> result]
    /\ IF selectedFile = ""
       THEN /\ toast' = Toast("No image selected", "Please upload an image to analyze",
                              "destructive")
            /\ UNCHANGED <<isAnalyzing, disReq>>
       ELSE IF tokenMissing(token)
       THEN /\ toast' = Toast("Analysis Failed", "Authentication required. Please log in.",
                              "destructive")
            /\ isAnalyzing' = FALSE
            /\ UNCHANGED disReq
       ELSE /\ isAnalyzing' = TRUE
            /\ disReq' = <<[file |-> selectedFile, authorization |-> token]>>
            /\ UNCHANGED toast
    /\ UNCHANGED <<selectedFile, imagePreview, reading, result, token>>
    /\ UNCHANGED outsideDis

\* handleAnalyze from the fetch's result on
AnalyzeResponse(resp) ==
    /\ disReq # <<>>
    /\ disReq' = <<>>
    /\ disLast' = [op |-> "analyzeResponse", resp |-> resp]
    /\ IF resp.ok /\ resp.body = "prediction"
       THEN /\ result' = <<prediction(disReq[1].file)>>
            /\ toast' = Toast("Analysis Complete", "Detected", "default")
       ELSE /\ toast' = Toast("Analysis Failed", detectFailure(resp), "destructive")
            /\ UNCHANGED result
    /\ isAnalyzing' = FALSE
    /\ UNCHANGED <<selectedFile, imagePreview, reading, token>>
    /\ UNCHANGED outsideDis

\* resetForm (the Reset button is disabled while analysing)
resetForm ==
    /\ ~isAnalyzing
    /\ selectedFile' = ""
    /\ imagePreview' = <<>>
    /\ result' = <<>>
    /\ disLast' = [op |-> "resetForm"]
    /\ UNCHANGED <<reading, isAnalyzing, disReq, token, toast>>
    /\ UNCHANGED outsideDis

NextDis ==
    \/ \E file \in Files : handleFileChange(file)
    \/ \E file \in Files : ReaderOnload(file)
    \/ handleAnalyze
    \/ \E resp \in DetectResponses : AnalyzeResponse(resp)
    \/ resetForm

\* C9: handleAnalyze sends no request to /crop_disease/detect-disease when no file
\* is selected or when localStorage holds no access_token; without a token (and a
\* file selected) it reports 'Authentication required. Please log in.', leaves
\* result unchanged, and isAnalyzing is false again.
C9_AnalyzeNeedsFileAndToken ==
    disLast.op = "handleAnalyze" =>
        /\ (disLast.file = "" \/ disLast.token = "") => disReq = <<>>
        /\ (disLast.file # "" /\ disLast.token = "") =>
              /\ toast.description = "Authentication required. Please log in."
              /\ result = disLast.result
              /\ isAnalyzing = FALSE

C9_Witness ==
    /\ disLast.op = "handleAnalyze"
    /\ disLast.file = "leaf2.jpg" /\ disLast.token = ""
    /\ imagePreview = <<"data", "leaf2.jpg">>
    /\ disReq = <<>> /\ ~isAnalyzing
    /\ toast = Toast("Analysis Failed", "Authentication required. Please log in.",
                     "destructive")

\* C12: after a new image is selected, no detection result is displayed until an
\* analysis of the newly selected image completes, whatever analysis was still in
\* flight when the file was selected: a displayed result is a result for the
\* selected image.
C12_ResultOfSelectedImage ==
    result # <<>> => result[1].image = selectedFile

(***************************************************************************)
(* RiskDashboard.tsx: the city/state memo and the fetchWeather effect.     *)
(* A location string is a sequence of pieces: a comma, a blank, or a word  *)
(* (a run of other characters).                                            *)
(***************************************************************************)
MaxFetches == 2

\* String.prototype.split on a one-piece separator
RECURSIVE split(_, _)
split(s, sep) ==
    LET i == FirstIndex(s, sep, 1)
    IN  IF i = 0 THEN <<s>>
        ELSE <<SubSeq(s, 1, i - 1)>> \o split(SubSeq(s, i + 1, Len(s)), sep)

\* Boolean(p) of a string
nonEmptyString(p) == p # <<>>

\* (location || "").split(",").map((p) => p.trim()).filter(Boolean)
locationParts(loc) ==
    LET raw == split(loc, ",")
    IN  SelectSeq([i \in 1..Len(raw) |-> trim(raw[i])], nonEmptyString)

\* { city: parts[0] || "Bengaluru", state: parts[1] }; state <<>> stands for undefined
cityState(loc) ==
    LET parts == locationParts(loc)
    IN  [city  |-> IF Len(parts) >= 1 THEN parts[1] ELSE <<"Bengaluru">>,
         state |-> IF Len(parts) >= 2 THEN parts[2] ELSE <<>>]

\* useState("Bangalore, Karnataka") of the Dashboard page that passes the prop
DefaultLocation == <<"Bangalore", ",", " ", "Karnataka">>

\* locations the search box or the geolocation lookup can hand over
Locations ==
    {DefaultLocation,
     <<"Bangalore", ",", "Karnataka">>,
     <<"Mysuru">>,
     <<" ", ",", "Pune", " ", ",", " ", "Maharashtra", ",", "India">>,
     <<>>}

\* the GET /weather/weather/current request: query parameters and Authorization
\* header (state <<>>: parameter not set, authorization "": header not sent)
weatherRequest(cs, tok) ==
    [city |-> cs.city, state |-> cs.state, country |-> "IN", authorization |-> tok]

\* answers of GET /weather/weather/current
WeatherResponses ==
    {[kind |-> "http", ok |-> TRUE, body |-> b] : b \in {"full", "empty", "null", "unreadable"}}
    \cup {[kind |-> "http", ok |-> FALSE, body |-> b] : b \in {"detail", "empty", "unreadable"}}
    \cup {[kind |-> "network", ok |-> FALSE, body |-> "none"]}

\* whether the try block of fetchWeather throws on this answer: fetch rejects,
\* res.json() rejects, !res.ok, or data is null so that data.weather throws
fetchThrows(resp) ==
    resp.kind = "network" \/ resp.body \in {"unreadable", "null"} \/ ~resp.ok

\* as fetchErrorMessage, without the fallback text
fetchErrorMessageNoFallback(resp) ==
    IF resp.kind = "network" THEN <<"Failed to fetch">>
    ELSE IF resp.body = "unreadable" THEN <<"Unexpected token">>
    ELSE IF ~resp.ok /\ resp.body = "detail" THEN <<"detail">>
    ELSE IF ~resp.ok THEN <<>>
    ELSE <<"Cannot read properties of null">>

\* e?.message || "Failed to fetch weather", the error thrown for a non-ok answer
\* being new Error(data?.detail || "Failed to fetch weather")
fetchErrorMessage(resp) ==
    IF resp.kind = "network" THEN <<"Failed to fetch">>
    ELSE IF resp.body = "unreadable" THEN <<"Unexpected token">>
    ELSE IF ~resp.ok /\ resp.body = "detail" THEN <<"detail">>
    ELSE IF ~resp.ok THEN <<"Failed to fetch weather">>
    ELSE <<"Cannot read properties of null">>

\* data.weather || null and data.farm_alerts || null of an ok answer to request req
dataWeather(resp, req) ==
    IF resp.body = "full" THEN <<[weatherOf |-> <<req.city, req.state>>]>> ELSE <<>>

dataFarmAlerts(resp, req) ==
    IF resp.body = "full" THEN <<[alertsOf |-> <<req.city, req.state>>]>> ELSE <<>>

WxInit ==
    /\ token \in {"", StoredToken}
    /\ page = "/dashboard"
    /\ toast = NoToast
    /\ location = DefaultLocation
    /\ wxMounted = FALSE
    /\ currentWeather = <<>>
    /\ alerts = <<>>
    /\ error = <<>>
    /\ weatherLoading = FALSE
    /\ fetches = <<>>
    /\ wxLast = [op |-> "none"]

\* fetchWeather up to the fetch, for the city and state of location loc
fetchWeather(loc) ==
    /\ weatherLoading' = TRUE
    /\ error' = <<>>
    /\ fetches' = Append(fetches, [req |-> weatherRequest(cityState(loc), token),
                                   answer |-> <<>>])
    /\ wxLast' = [op |-> "fetchWeather"]
    /\ UNCHANGED <<currentWeather, alerts>>

\* the effect's first run, after the component has mounted
WeatherMountEffect ==
    /\ ~wxMounted
    /\ wxMounted' = TRUE
    /\ fetchWeather(location)
    /\ UNCHANGED location
    /\ UNCHANGED outsideWx

\* the location prop changes (Navbar search, geolocation lookup); the effect runs
\* again when city or state differ from the previous render
LocationChange(loc) ==
    /\ wxMounted
    /\ loc # location
    /\ cityState(loc) = cityState(location) \/ Len(fetches) < MaxFetches
    /\ location' = loc
    /\ IF cityState(loc) # cityState(location)
       THEN fetchWeather(loc)
       ELSE /\ wxLast' = [op |-> "render"]
            /\ UNCHANGED <<currentWeather, alerts, error, weatherLoading, fetches>>
    /\ UNCHANGED wxMounted
    /\ UNCHANGED outsideWx

\* fetchWeather number i from the fetch's result on
WeatherResponse(i, resp) ==
    /\ i \in 1..Len(fetches)
    /\ fetches[i].answer = <<>>
    /\ fetches' = [fetches EXCEPT ![i].answer = <<resp>>]
    /\ wxLast' = [op |-> "response", failed |-> fetchThrows(resp),
                  weather |-> currentWeather, alerts |-> alerts]
    /\ IF fetchThrows(resp)
       THEN /\ error' = fetchErrorMessage(resp)
            /\ UNCHANGED <<currentWeather, alerts>>
       ELSE /\ currentWeather' = dataWeather(resp, fetches[i].req)
            /\ alerts' = dataFarmAlerts(resp, fetches[i].req)
            /\ UNCHANGED error
    /\ weatherLoading' = FALSE
    /\ UNCHANGED <<location, wxMounted>>
    /\ UNCHANGED outsideWx

NextWx ==
    \/ WeatherMountEffect
    \/ \E loc \in Locations : LocationChange(loc)
    \/ \E i \in 1..MaxFetches, resp \in WeatherResponses : WeatherResponse(i, resp)

\* the fetchWeather calls whose fetch has not been answered yet
InFlight == {i \in 1..Len(fetches) : fetches[i].answer = <<>>}

\* fetchWeather call i stored the weather and alerts of its answer
Succeeded(i) == fetches[i].answer # <<>> /\ ~fetchThrows(fetches[i].answer[1])

\* the request parameters of the current render
CurrentKey == cityState(location)

\* C13: once no weather request is in flight and the request for the current
\* city/state succeeded, the stored weather and alerts are those of an answer to a
\* request for the current city/state, whatever the order of the answers.
C13_WeatherOfCurrentLocation ==
    (fetches # <<>> /\ InFlight = {} /\ Succeeded(Len(fetches))) =>
        \E i \in 1..Len(fetches) :
            /\ Succeeded(i)
            /\ fetches[i].req.city = CurrentKey.city
            /\ fetches[i].req.state = CurrentKey.state
            /\ currentWeather = dataWeather(fetches[i].answer[1], fetches[i].req)
            /\ alerts = dataFarmAlerts(fetches[i].answer[1], fetches[i].req)

\* C14: loading is true in every state in which at least one weather request is
\* in flight, also when a location change started a second request before the
\* first completed.
C14_LoadingWhileInFlight ==
    InFlight # {} => weatherLoading

\* C16: right after a failed weather request (non-ok answer or exception) error is
\* a message, loading is false and weather and alerts are what they were before;
\* right after a weather request is started error is null.
C16_FailureKeepsWeather ==
    /\ (wxLast.op = "response" /\ wxLast.failed) =>
          /\ error # <<>>
          /\ ~weatherLoading
          /\ currentWeather = wxLast.weather
          /\ alerts = wxLast.alerts
    /\ wxLast.op = "fetchWeather" => error = <<>>

C16_Witness ==
    /\ wxLast.op = "response" /\ wxLast.failed
    /\ error = <<"Failed to fetch weather">>
    /\ currentWeather = <<[weatherOf |-> <<<<"Bangalore">>, <<"Karnataka">>>>]>>
    /\ CurrentKey.city = <<"Mysuru">>
    /\ ~weatherLoading

(***************************************************************************)
(* CropRecommendation.tsx and the FertilizerRecommendation component:      *)
(* the forms that call POST /crop_predict/predict and                      *)
(* POST /fertilizer_predict/predict. Text inputs hold character strings.  *)
(***************************************************************************)
Forms == {"crop", "fertilizer"}

\* the text inputs of each form
CropInputs == {"nitrogen", "phosphorus", "potassium", "temperature", "humidity", "ph",
               "rainfall"}
FertilizerInputs == {"temperature", "humidity", "moisture", "nitrogen", "phosphorous",
                     "potassium"}
FertilizerSelects == {"cropType", "soilType", "growthStage"}

TextInputs(f) == IF f = "crop" THEN CropInputs ELSE FertilizerInputs

cropOptions == <<"Maize", "Sugarcane", "Cotton", "Tobacco", "Paddy", "Barley", "Wheat",
                 "Millets", "Oil seeds", "Pulses", "Ground Nuts">>
soilOptions == <<"Sandy", "Loamy", "Black", "Red", "Clayey">>
growthStageOptions == <<"Seedling", "Vegetative", "Flowering", "Fruiting", "Maturity">>

\* what the user types into a text input: nothing, or that field's example value
Typeable(field) ==
    {<<>>,
     CASE field = "nitrogen"    -> <<"9","0">>
       [] field = "phosphorus"  -> <<"4","2">>
       [] field = "phosphorous" -> <<"4","2">>
       [] field = "potassium"   -> <<"3","7">>
       [] field = "temperature" -> <<"2","8",".","5">>
       [] field = "humidity"    -> <<"6","5">>
       [] field = "moisture"    -> <<"4","0">>
       [] field = "ph"          -> <<"6",".","5">>
       [] field = "rainfall"    -> <<"2","0","2",".","9">>}

\* what the user picks in a select ("" is the unset value) or on the pH slider (tenths)
Selectable(field) ==
    CASE field = "cropType"    -> {cropOptions[7]}
      [] field = "soilType"    -> {soilOptions[3]}
      [] field = "growthStage" -> {growthStageOptions[2]}
      [] field = "soilPH"      -> {65, 70}

DigitChars == <<"0", "1", "2", "3", "4", "5", "6", "7", "8", "9">>

digitValue(c) == (CHOOSE d \in 1..10 : DigitChars[d] = c) - 1

RECURSIVE wholeNumber(_)
wholeNumber(s) ==
    IF s = <<>> THEN 0
    ELSE wholeNumber(SubSeq(s, 1, Len(s) - 1)) * 10 + digitValue(s[Len(s)])

\* parseFloat of a decimal numeral with at most one fraction digit, in tenths
parseFloat(s) ==
    LET p == FirstIndex(s, ".", 1)
    IN  IF p = 0 THEN wholeNumber(s) * 10
        ELSE wholeNumber(SubSeq(s, 1, p - 1)) * 10
             + (IF p < Len(s) THEN digitValue(s[p + 1]) ELSE 0)

\* Array.prototype.indexOf
indexOf(list, x) ==
    IF \E i \in 1..Len(list) : list[i] = x
    THEN (CHOOSE i \in 1..Len(list) : list[i] = x /\ \A k \in 1..(i - 1) : list[k] # x) - 1
    ELSE -1

\* as missingInformation, the fertilizer form not checking growthStage
missingInformationNoStage(f, flds, sels) ==
    \/ \E k \in TextInputs(f) : flds[k] = <<>>
    \/ f = "fertilizer" /\ \E k \in {"cropType", "soilType"} : sels[k] = ""

\* the first test of generateRecommendation / generateRecommendations: some
\* required field is empty
missingInformation(f, flds, sels) ==
    \/ \E k \in TextInputs(f) : flds[k] = <<>>
    \/ f = "fertilizer" /\ \E k \in FertilizerSelects : sels[k] = ""

missingToast(f) ==
    IF f = "crop"
    THEN Toast("t:crop_recommendation.missing_info",
               "t:crop_recommendation.missing_info_desc", "destructive")
    ELSE Toast("Missing information", "Please fill in all required fields", "destructive")

\* the JSON payload of the prediction request
payload(f, flds, sels) ==
    IF f = "crop"
    THEN [N |-> parseFloat(flds["nitrogen"]), P |-> parseFloat(flds["phosphorus"]),
          K |-> parseFloat(flds["potassium"]),
          temperature |-> parseFloat(flds["temperature"]),
          humidity |-> parseFloat(flds["humidity"]), ph |-> parseFloat(flds["ph"]),
          rainfall |-> parseFloat(flds["rainfall"])]
    ELSE [Temperature |-> parseFloat(flds["temperature"]),
          Humidity |-> parseFloat(flds["humidity"]),
          Moisture |-> parseFloat(flds["moisture"]),
          SoilType |-> Max2(0, indexOf(soilOptions, sels["soilType"])),
          CropType |-> Max2(0, indexOf(cropOptions, sels["cropType"])),
          Nitrogen |-> parseFloat(flds["nitrogen"]),
          Phosphorous |-> parseFloat(flds["phosphorous"]),
          Potassium |-> parseFloat(flds["potassium"])]

predictRequest(f, flds, sels, tok) ==
    [url |-> IF f = "crop" THEN "/crop_predict/predict" ELSE "/fertilizer_predict/predict",
     authorization |-> tok, body |-> payload(f, flds, sels)]

\* keys of cropDatabase and of fertilizerDatabase
cropDatabase ==
    {<<"r","i","c","e">>,
     <<"m","a","i","z","e">>,
     <<"c","h","i","c","k","p","e","a">>,
     <<"k","i","d","n","e","y","b","e","a","n","s">>,
     <<"p","i","g","e","o","n","p","e","a","s">>,
     <<"m","o","t","h","b","e","a","n","s">>,
     <<"m","u","n","g","b","e","a","n">>,
     <<"b","l","a","c","k","g","r","a","m">>,
     <<"l","e","n","t","i","l">>,
     <<"p","o","m","e","g","r","a","n","a","t","e">>,
     <<"b","a","n","a","n","a">>,
     <<"m","a","n","g","o">>,
     <<"g","r","a","p","e","s">>,
     <<"w","a","t","e","r","m","e","l","o","n">>,
     <<"m","u","s","k","m","e","l","o","n">>,
     <<"a","p","p","l","e">>,
     <<"o","r","a","n","g","e">>,
     <<"p","a","p","a","y","a">>,
     <<"c","o","c","o","n","u","t">>,
     <<"c","o","t","t","o","n">>,
     <<"j","u","t","e">>,
     <<"c","o","f","f","e","e">>}

fertilizerDatabase ==
    {<<"U","r","e","a">>,
     <<"D","A","P">>,
     <<"1","4","-","3","5","-","1","4">>,
     <<"2","8","-","2","8">>,
     <<"1","7","-","1","7","-","1","7">>,
     <<"2","0","-","2","0">>,
     <<"1","0","-","2","6","-","2","6">>}

\* answers of the prediction endpoints: name is predicted_crop or
\* recommended_fertilizer (characters), empty when the body lacks it; body "null" is a JSON null,
\* an unreadable body is replaced by {} through res.json().catch(() => ({}))
PredictResponses(f) ==
    LET names == IF f = "crop"
                 THEN {<<"r","i","c","e">>, <<"C","o","f","f","e","e">>, <<"k","i","w","i">>}
                 ELSE {<<"U","r","e","a">>, <<"u","r","e","a">>}
        none  == <<>>
    IN  {[kind |-> "http", ok |-> TRUE, body |-> "named", name |-> n] : n \in names}
        \cup {[kind |-> "http", ok |-> TRUE, body |-> b, name |-> none]
                : b \in {"empty", "unreadable", "null"}}
        \cup {[kind |-> "http", ok |-> FALSE, body |-> b, name |-> none]
                : b \in {"detail", "empty", "unreadable"}}
        \cup {[kind |-> "network", ok |-> FALSE, body |-> "none", name |-> none]}

\* as predictFailed, the status of the response not being looked at
predictFailedNetworkOnly(resp) == resp.kind = "network"

\* the request failed: fetch rejected or the response is not ok
predictFailed(resp) == resp.kind = "network" \/ ~resp.ok

\* the try block throws: a failed request, or a null body whose field is read
predictThrows(resp) == predictFailed(resp) \/ resp.body = "null"

\* e?.message of the error caught (never empty, so the fallback text is not used)
predictErrorMessage(resp) ==
    IF resp.kind = "network" THEN "Failed to fetch"
    ELSE IF ~resp.ok THEN (IF resp.body = "detail" THEN "detail" ELSE "Prediction failed")
    ELSE "Cannot read properties of null"

errorToast(f, resp) ==
    Toast(IF f = "crop" THEN "t:crop_recommendation.error" ELSE "Error",
          predictErrorMessage(resp), "destructive")

readyToast(f) ==
    IF f = "crop"
    THEN Toast("t:crop_recommendation.recommendation_ready",
               "t:crop_recommendation.recommendation_ready_desc", "default")
    ELSE Toast("Recommendations Ready", "Fetched from backend model", "default")

\* setRecommendation({name: data.predicted_crop || "Unknown Crop", ...cropInfo}) with
\* cropInfo = cropDatabase[data.predicted_crop?.toLowerCase() || "unknown"] || fallback
cropRecommendation(resp) ==
    LET cropKey == IF resp.name = <<>> THEN <<"u","n","k","n","o","w","n">>
                   ELSE toLowerCase(resp.name)
    IN  [name |-> IF resp.name = <<>> THEN <<"Unknown Crop">> ELSE resp.name,
         info |-> IF cropKey \in cropDatabase THEN <<"cropDatabase", cropKey>>
                  ELSE <<"fallback">>]

\* [fertilizerDatabase[fertilizerName] || {name: fertilizerName, ...}] with
\* fertilizerName = data.recommended_fertilizer || "Unknown"
fertilizerRecommendation(resp) ==
    LET fertilizerName == IF resp.name = <<>> THEN <<"Unknown">> ELSE resp.name
    IN  IF fertilizerName \in fertilizerDatabase
        THEN [info |-> "fertilizerDatabase", name |-> fertilizerName]
        ELSE [info |-> "fallback", name |-> fertilizerName]

RecInit ==
    /\ token \in {"", StoredToken}
    /\ page = "/dashboard"
    /\ toast = NoToast
    /\ recForm \in Forms
    /\ fields = [k \in TextInputs(recForm) |-> <<>>]
    /\ selects = IF recForm = "crop" THEN <<>>
                 ELSE [cropType |-> "", soilType |-> "", growthStage |-> "", soilPH |-> 65]
    /\ isGenerating = FALSE
    /\ recommendations = <<>>
    /\ soilNutrients = <<>>
    /\ recReq = <<>>
    /\ recLast = [op |-> "none"]

\* onChange of a text input
SetInput(k, v) ==
    /\ k \in TextInputs(recForm)
    /\ v \in Typeable(k)
    /\ v # fields[k]
    /\ fields' = [fields EXCEPT ![k] = v]
    /\ recLast' = [op |-> "input"]
    /\ UNCHANGED <<recForm, selects, isGenerating, recommendations, soilNutrients, recReq,
                   token, toast>>
    /\ UNCHANGED outsideRec

\* onValueChange of a select or of the pH slider (fertilizer form only)
SetSelect(k, v) ==
    /\ recForm = "fertilizer"
    /\ v \in Selectable(k)
    /\ v # selects[k]
    /\ selects' = [selects EXCEPT ![k] = v]
    /\ recLast' = [op |-> "select"]
    /\ UNCHANGED <<recForm, fields, isGenerating, recommendations, soilNutrients, recReq,
                   token, toast>>
    /\ UNCHANGED outsideRec

\* generateRecommendation / generateRecommendations up to the fetch (the button is
\* disabled while generating)
generateRecommendation ==
    /\ ~isGenerating
    /\ recLast' = [op |-> "generate", fields |-> fields, selects |-> selects,
                   isGenerating |-> isGenerating, recommendations |-> recommendations,
                   soilNutrients |-> soilNutrients, recReq |-> recReq]
    /\ IF missingInformation(recForm, fields, selects)
       THEN /\ toast' = missingToast(recForm)
            /\ UNCHANGED <<isGenerating, recReq>>
       ELSE /\ isGenerating' = TRUE
            /\ recReq' = Append(recReq, predictRequest(recForm, fields, selects, token))
            /\ UNCHANGED toast
    /\ UNCHANGED <<recForm, fields, selects, recommendations, soilNutrients, token>>
    /\ UNCHANGED outsideRec

\* generateRecommendation / generateRecommendations from the fetch's result on
PredictResponse(resp) ==
    /\ recReq # <<>>
    /\ resp \in PredictResponses(recForm)
    /\ recReq' = Tail(recReq)
    /\ recLast' = [op |-> "response", resp |-> resp, recommendations |-> recommendations,
                   soilNutrients |-> soilNutrients]
    /\ IF predictFailed(resp)
       THEN /\ toast' = errorToast(recForm, resp)
            /\ UNCHANGED <<recommendations, soilNutrients>>
       ELSE IF recForm = "crop"
       THEN /\ IF predictThrows(resp)
               THEN toast' = errorToast(recForm, resp) /\ UNCHANGED recommendations
               ELSE /\ recommendations' = <<cropRecommendation(resp)>>
                    /\ toast' = readyToast(recForm)
            /\ UNCHANGED soilNutrients
       ELSE /\ soilNutrients' = <<"mockSoilNutrients">>
            /\ IF predictThrows(resp)
               THEN toast' = errorToast(recForm, resp) /\ UNCHANGED recommendations
               ELSE /\ recommendations' = <<fertilizerRecommendation(resp)>>
                    /\ toast' = readyToast(recForm)
    /\ isGenerating' = FALSE
    /\ UNCHANGED <<recForm, fields, selects, token>>
    /\ UNCHANGED outsideRec

\* resetForm of either form (the button is disabled while generating)
resetRecommendation ==
    /\ ~isGenerating
    /\ fields' = [k \in TextInputs(recForm) |-> <<>>]
    /\ selects' = IF recForm = "crop" THEN selects
                  ELSE [cropType |-> "", soilType |-> "", growthStage |-> "", soilPH |-> 65]
    /\ recommendations' = <<>>
    /\ soilNutrients' = IF recForm = "crop" THEN soilNutrients ELSE <<>>
    /\ recLast' = [op |-> "resetForm"]
    /\ UNCHANGED <<recForm, isGenerating, recReq, token, toast>>
    /\ UNCHANGED outsideRec

NextRec ==
    \/ \E k \in CropInputs \cup FertilizerInputs :
         \E v \in Typeable(k) : SetInput(k, v)
    \/ \E k \in FertilizerSelects \cup {"soilPH"} :
         \E v \in Selectable(k) : SetSelect(k, v)
    \/ generateRecommendation
    \/ \E resp \in PredictResponses("crop") \cup PredictResponses("fertilizer") :
         PredictResponse(resp)
    \/ resetRecommendation

\* C17: right after a failed prediction request (non-ok response or network error)
\* the displayed recommendation and, for fertilizer, the soil-nutrient list are
\* what they were before, an error toast is on screen and isGenerating is false;
\* isGenerating is false after a successful request too.
C17_FailedPredictionKeepsResult ==
    recLast.op = "response" =>
        /\ ~isGenerating
        /\ (recLast.resp.kind = "network" \/ ~recLast.resp.ok) =>
              /\ recommendations = recLast.recommendations
              /\ soilNutrients = recLast.soilNutrients
              /\ toast.variant = "destructive"
              /\ toast.title = (IF recForm = "crop" THEN "t:crop_recommendation.error"
                                ELSE "Error")

C17_Witness ==
    /\ recLast.op = "response"
    /\ recLast.resp.kind = "http" /\ ~recLast.resp.ok
    /\ recForm = "fertilizer"
    /\ recommendations = <<[info |-> "fertilizerDatabase", name |-> <<"U","r","e","a">>]>>
    /\ soilNutrients # <<>>
    /\ toast.description = "Prediction failed"
    /\ ~isGenerating

\* some required field was empty when the generate handler ran: one of the 7 of
\* the crop form, one of the 9 of the fertilizer form
RequiredFieldEmpty ==
    IF recForm = "crop"
    THEN \E k \in {"nitrogen", "phosphorus", "potassium", "temperature", "humidity",
                   "ph", "rainfall"} : recLast.fields[k] = <<>>
    ELSE \/ \E k \in {"temperature", "humidity", "moisture", "nitrogen", "phosphorous",
                      "potassium"} : recLast.fields[k] = <<>>
         \/ \E k \in {"cropType", "soilType", "growthStage"} : recLast.selects[k] = ""

\* C18: when a required field is empty, generateRecommendation (crop form, 7
\* fields) and generateRecommendations (fertilizer form, 9 fields with the growth
\* stage) send no request and leave every state variable as it was, showing the
\* missing-information toast.
C18_MissingFieldSendsNothing ==
    (recLast.op = "generate" /\ RequiredFieldEmpty) =>
        /\ recReq = recLast.recReq
        /\ fields = recLast.fields
        /\ selects = recLast.selects
        /\ isGenerating = recLast.isGenerating
        /\ recommendations = recLast.recommendations
        /\ soilNutrients = recLast.soilNutrients
        /\ toast.variant = "destructive"
        /\ toast.title = (IF recForm = "crop" THEN "t:crop_recommendation.missing_info"
                          ELSE "Missing information")

C18_Witness ==
    /\ recLast.op = "generate"
    /\ recForm = "fertilizer"
    /\ \A k \in DOMAIN fields : fields[k] # <<>>
    /\ selects["cropType"] # "" /\ selects["soilType"] # ""
    /\ selects["growthStage"] = ""
    /\ recReq = <<>> /\ ~isGenerating
    /\ toast = Toast("Missing information", "Please fill in all required fields",
                     "destructive")

(***************************************************************************)
(* Specifications: one per part of the application; the other parts rest   *)
(***************************************************************************)
RiskIdle == cropName = <<>> /\ weather = NullWeather /\ riskPc = "off" /\ riskOut = 0
RagIdle  == ragPc = "off" /\ ragState = InitialRagState("", 1, "None") /\ ragTrace = <<>>
ChatIdle ==
    /\ component = "none" /\ messages = <<>> /\ input = <<>> /\ loading = FALSE
    /\ chatReq = <<>> /\ chatLast = [op |-> "none"]
EnvIdle  == token = "" /\ page = "/" /\ toast = NoToast
AuthIdle ==
    /\ authPc = "unmounted" /\ authLoading = FALSE /\ authReq = <<>>
    /\ authLast = [op |-> "none"] /\ userBudget = 0
    /\ dashVariant = "none" /\ backend = "none" /\ checkPc = "unmounted"
    /\ checking = TRUE /\ userName = "" /\ dashLast = [op |-> "none"]
DisIdle  ==
    /\ selectedFile = "" /\ imagePreview = <<>> /\ reading = {} /\ isAnalyzing = FALSE
    /\ result = <<>> /\ disReq = <<>> /\ disLast = [op |-> "none"]
WxIdle   ==
    /\ location = <<>> /\ wxMounted = FALSE /\ currentWeather = <<>> /\ alerts = <<>>
    /\ error = <<>> /\ weatherLoading = FALSE /\ fetches = <<>>
    /\ wxLast = [op |-> "none"]
RecIdle  ==
    /\ recForm = "none" /\ fields = <<>> /\ selects = <<>> /\ isGenerating = FALSE
    /\ recommendations = <<>> /\ soilNutrients = <<>> /\ recReq = <<>>
    /\ recLast = [op |-> "none"]

\* calculateCropRisk on every crop name and weather input
InitRisk == RiskInit /\ RagIdle /\ ChatIdle /\ EnvIdle /\ AuthIdle /\ DisIdle /\ WxIdle /\ RecIdle
SpecRisk == InitRisk /\ [][ComputeRisk]_vars

\* the documented pipeline on every validated query request
InitRag == RagInit /\ RiskIdle /\ ChatIdle /\ EnvIdle /\ AuthIdle /\ DisIdle /\ WxIdle /\ RecIdle
SpecRag == InitRag /\ [][NextRag]_vars

\* one chat component, its user and the RAG endpoint
InitChat == ChatInit /\ EnvIdle /\ RiskIdle /\ RagIdle /\ AuthIdle /\ DisIdle /\ WxIdle /\ RecIdle
SpecChat == InitChat /\ [][NextChat]_vars

\* the Auth and Dashboard pages, one user, one backend behaviour per run
InitAuth == AuthInit /\ RiskIdle /\ RagIdle /\ ChatIdle /\ DisIdle /\ WxIdle /\ RecIdle
SpecAuth == InitAuth /\ [][NextAuth]_vars

\* effects run once their component has mounted, and every fetch resolves or rejects
FairSpecAuth ==
    /\ SpecAuth
    /\ WF_vars(AuthMountEffect)
    /\ WF_vars(DashCheckAuthStart)
    /\ WF_vars(\E resp \in MeResponses(backend) : DashCheckAuthResponse(resp))

\* the disease-detection component, its user and the detection endpoint
InitDis == DisInit /\ RiskIdle /\ RagIdle /\ ChatIdle /\ AuthIdle /\ WxIdle /\ RecIdle
SpecDis == InitDis /\ [][NextDis]_vars

\* the RiskDashboard component, its location prop and the weather endpoint
InitWx == WxInit /\ RiskIdle /\ RagIdle /\ ChatIdle /\ AuthIdle /\ DisIdle /\ RecIdle
SpecWx == InitWx /\ [][NextWx]_vars

\* one recommendation form, its user and the prediction endpoint
InitRec == RecInit /\ RiskIdle /\ RagIdle /\ ChatIdle /\ AuthIdle /\ DisIdle /\ WxIdle
SpecRec == InitRec /\ [][NextRec]_vars

=============================================================================
